---- MODULE Spec2Model ----
(***************************************************************************)
(* Model of src/azure.go: a cobra command-line program with the commands   *)
(* create-container, delete-container, write, read and list, run against   *)
(* one blob container of a storage account.                                *)
(*                                                                         *)
(* One behaviour is a sequence of process invocations against the same     *)
(* store.  The store (the container and its blobs) persists from one       *)
(* invocation to the next; everything else is process state.  Every call   *)
(* into the SDK is one step whose result is OK or an error kind; the calls *)
(* made, their results and the lines printed are kept as history.          *)
(***************************************************************************)
EXTENDS Integers, Sequences, FiniteSets, TLC

\* Number of process invocations in one behaviour.
MaxRuns == 2

OK  == "ok"
Nil == "nil"

\* ---------------------------------------------------------------- strings
\* Strings that the code inspects are sequences of one-character strings.
Str_ab   == <<"a", "/", "b">>
Str_abd  == <<"a", "/", "b", "/", "d">>
Str_ac   == <<"a", "/", "c">>
Str_x    == <<"x">>
Str_adir == <<"a", "/">>

\* Object keys that occur in the store or on the command line.
Keys == {Str_ab, Str_abd, Str_ac, Str_x, Str_adir}

\* Values given to --blob-key, --blob-value and --blob-prefix ("" included:
\* it is the flags' default).
KeyArgs    == Keys \cup {<<>>}
ValueArgs  == {<<>>, <<"v">>}
PrefixArgs == {<<>>, <<"a">>, <<"a", "/">>, Str_ab, <<"z">>}

\* Content a blob may hold before the first invocation.
OldContent == <<"w", "\n">>

\* Byte value of a character (keys are ordered by byte value).
Ord(c) ==
    CASE c = "\n" -> 10
      [] c = " "  -> 32
      [] c = "/"  -> 47
      [] c = "a"  -> 97
      [] c = "b"  -> 98
      [] c = "c"  -> 99
      [] c = "d"  -> 100
      [] c = "v"  -> 118
      [] c = "w"  -> 119
      [] c = "x"  -> 120
      [] c = "z"  -> 122

RECURSIVE SeqLess(_, _)
SeqLess(s, t) ==
    IF s = <<>> THEN t # <<>>
    ELSE IF t = <<>> THEN FALSE
    ELSE IF Head(s) = Head(t) THEN SeqLess(Tail(s), Tail(t))
    ELSE Ord(Head(s)) < Ord(Head(t))

HasPrefix(s, p) == Len(p) <= Len(s) /\ SubSeq(s, 1, Len(p)) = p

TrimPrefix(s, p) == SubSeq(s, Len(p) + 1, Len(s))

\* Index of the first delimiter "/" in s, 0 when there is none.
DelimIndex(s) ==
    IF \E i \in 1..Len(s) : s[i] = "/"
    THEN CHOOSE i \in 1..Len(s) : s[i] = "/" /\ \A j \in 1..(i - 1) : s[j] # "/"
    ELSE 0

\* ---------------------------------------------------------------- listing
\* The object that b.List(Delimiter "/", Prefix fp) reports for key k: the
\* key itself when nothing after fp holds a delimiter, otherwise the
\* "directory" fp + segment + "/".
ListEntry(k, fp) ==
    LET rest == TrimPrefix(k, fp)
        i    == DelimIndex(rest)
    IN  IF i = 0
        THEN [Key |-> k, IsDir |-> FALSE]
        ELSE [Key |-> fp \o SubSeq(rest, 1, i), IsDir |-> TRUE]

ListObjects(keys, fp) ==
    {ListEntry(k, fp) : k \in {k \in keys : HasPrefix(k, fp)}}

RECURSIVE SortByKey(_)
SortByKey(S) ==
    IF S = {} THEN <<>>
    ELSE LET m == CHOOSE x \in S : \A y \in S \ {x} : SeqLess(x.Key, y.Key)
         IN  <<m>> \o SortByKey(S \ {m})

\* What the iterator of a bucket made by blob.PrefixedBucket(bucket, P)
\* yields for List(Prefix prefix): the listing of P + prefix in the
\* underlying bucket, in key order, with P taken off every key.
PrefixedList(keys, P, prefix) ==
    SortByKey({[Key |-> TrimPrefix(e.Key, P), IsDir |-> e.IsDir] :
                  e \in ListObjects(keys, P \o prefix)})

\* obj.IsDir: list recurses into the object.
Descend_never(obj) == FALSE

Descend(obj) == obj.IsDir

\* indent + "  " of the recursive call.
ChildIndent_oneSpace(indent) == indent \o <<" ">>

ChildIndent(indent) == indent \o <<" ", " ">>


\* ------------------------------------------------------------------ state
VARIABLES
    containerExists,  \* store: the container is Active
    blobs,            \* store: key -> content of the container's blobs
    run,              \* number of the current process invocation
    pre,              \* the store as it was when the invocation started
    argv,             \* the command line of the invocation
    pc,               \* position of the process
    exitCode,         \* exit code of the process, -1 while it runs
    ctx,              \* package variable ctx
    credential,       \* package variable credential
    pline,            \* package variable pline
    containerName,    \* flag --container-name
    blobKey,          \* flag --blob-key
    blobValue,        \* flag --blob-value
    blobPrefix,       \* flag --blob-prefix
    bucket,           \* the bucket the local variable bucket refers to
    opened,           \* buckets made so far: "orig", "prefixed"
    closeCalls,       \* bucket -> number of Close calls made on it
    openCred,         \* the Options.Credential OpenBucket was given
    writer,           \* writer w: "none", "open", "closed"
    reader,           \* reader r: "none", "open", "closed"
    defers,           \* deferred calls of the running handler, last first
    frames,           \* call stack of list: prefix, indent, objects left
    out,              \* lines printed so far
    calls             \* fallible calls made so far, with their results

store   == <<containerExists, blobs>>
globals == <<ctx, credential, pline>>
flags   == <<containerName, blobKey, blobValue, blobPrefix>>
session == <<bucket, opened, closeCalls, openCred, writer, reader, defers>>
vars    == <<containerExists, blobs, run, pre, argv, pc, exitCode, ctx,
             credential, pline, containerName, blobKey, blobValue,
             blobPrefix, bucket, opened, closeCalls, openCred, writer,
             reader, defers, frames, out, calls>>

DefaultContainerName == "default-container-name"
BadContainerName     == "%zz"
ContainerNames       == {DefaultContainerName, BadContainerName}

Commands == {"create-container", "delete-container", "write", "read", "list"}

\* Command lines.  A command takes only the flags registered for it; a flag
\* that is not registered, and a command that does not exist, make
\* rootCmd.Execute return an error (flagError, and cmd "bogus").
Argv(c, n, k, v, p, fe) ==
    [cmd |-> c, containerName |-> n, blobKey |-> k, blobValue |-> v,
     blobPrefix |-> p, flagError |-> fe]

Argvs ==
    {Argv(c, n, <<>>, <<>>, <<>>, FALSE) :
        c \in {"create-container", "delete-container"}, n \in ContainerNames}
    \cup {Argv("write", n, k, v, <<>>, FALSE) :
        n \in ContainerNames, k \in KeyArgs, v \in ValueArgs}
    \cup {Argv("read", n, k, <<>>, <<>>, FALSE) :
        n \in ContainerNames, k \in KeyArgs}
    \cup {Argv("list", n, <<>>, <<>>, p, FALSE) :
        n \in ContainerNames, p \in PrefixArgs}
    \cup {Argv(c, DefaultContainerName, <<>>, <<>>, <<>>, TRUE) : c \in Commands}
    \cup {Argv("bogus", DefaultContainerName, <<>>, <<>>, <<>>, FALSE)}

\* Stores an invocation may find: no container, or a container holding any
\* set of the keys.
InitialStores ==
    {[exists |-> FALSE, blobs |-> [k \in {} |-> OldContent]]}
    \cup {[exists |-> TRUE, blobs |-> [k \in S |-> OldContent]] : S \in SUBSET Keys}

\* The process as the operating system starts it: package variables and
\* flags hold their zero values, nothing is printed.
ProcessStart(a) ==
    /\ argv = a
    /\ pc = "init"
    /\ exitCode = -1
    /\ ctx = Nil
    /\ credential = Nil
    /\ pline = Nil
    /\ containerName = ""
    /\ blobKey = <<>>
    /\ blobValue = <<>>
    /\ blobPrefix = <<>>
    /\ bucket = Nil
    /\ opened = {}
    /\ closeCalls = [b \in {"orig", "prefixed"} |-> 0]
    /\ openCred = "none"
    /\ writer = "none"
    /\ reader = "none"
    /\ defers = <<>>
    /\ frames = <<>>
    /\ out = <<>>
    /\ calls = <<>>

Init ==
    /\ \E s \in InitialStores :
          /\ containerExists = s.exists
          /\ blobs = s.blobs
          /\ pre = s
    /\ run = 1
    /\ \E a \in Argvs : ProcessStart(a)

\* ---------------------------------------------------------------- helpers
\* Error kinds every call that reaches the service may end in.
Transient == {"AccessDenied", "Throttled", "Timeout", "Unknown"}

\* Results of a call: OK when the store can serve it, otherwise the error
\* the service answers with; a transport failure is possible in any case.
Results(canServe, refusal) ==
    (IF canServe THEN {OK} ELSE {refusal}) \cup Transient

\* Results of a Close of a bucket or a reader.
CloseResults == {OK, "CloseError"}

\* The container named by --container-name is Active.
Active == containerExists /\ containerName = DefaultContainerName

\* err != nil
Failed_never(res) == FALSE

Failed(res) == res # OK

\* s == ""
IsEmpty_never(s) == FALSE

IsEmpty(s) == s = <<>>

Call(op, res, reported) == [op |-> op, res |-> res, reported |-> reported]

Line(kind, text, key, isDir, depth) ==
    [kind |-> kind, text |-> text, key |-> key, isDir |-> isDir, depth |-> depth]

Msg(kind) == Line(kind, <<>>, <<>>, FALSE, 0)

\* log.Fatal(err): the error is printed and os.Exit(1) ends the process at
\* once; deferred calls do not run.
Fatal_logOnly ==
    /\ pc' = pc
    /\ exitCode' = exitCode

Fatal ==
    /\ pc' = "exit"
    /\ exitCode' = 1


\* A panic (nil pointer dereference): the runtime ends the process with
\* exit code 2; deferred calls of the handler do not close anything.
Panic ==
    /\ pc' = "exit"
    /\ exitCode' = 2

Deferred(call, on) == [call |-> call, on |-> on]

\* ------------------------------------------------------------------- init
\* func init(): flags and commands are registered, ctx is set, a credential
\* is made from accountName and accountKey (NewCredential fails for a key
\* that is not base64) and the pipeline is built from it.  "credential, err :=" declares
\* a variable local to init, so the package variable credential keeps its
\* zero value.
init ==
    /\ pc = "init"
    /\ ctx' = "Background"
    /\ credential' = credential
    /\ \E res \in {OK, "CredentialError"} :
          /\ calls' = Append(calls, Call("NewCredential", res, Failed(res)))
          /\ IF Failed(res)
             THEN Fatal /\ pline' = pline
             ELSE /\ pline' = [credential |-> "sharedKey"]
                  /\ pc' = "main"
                  /\ exitCode' = exitCode
    /\ UNCHANGED <<store, run, pre, argv, flags, session, frames, out>>

\* func main() and func Execute(): rootCmd.Execute parses the command line
\* and runs the command.  For an unknown command or a flag error it prints
\* the error and returns it; main drops the returned error and returns.
Execute ==
    /\ pc = "main"
    /\ IF argv.cmd \notin Commands \/ argv.flagError
       THEN /\ calls' = Append(calls, Call("Execute", "UsageError", TRUE))
            /\ pc' = "exit"
            /\ exitCode' = 0
            /\ UNCHANGED flags
       ELSE /\ containerName' = argv.containerName
            /\ blobKey' = argv.blobKey
            /\ blobValue' = argv.blobValue
            /\ blobPrefix' = argv.blobPrefix
            /\ pc' = argv.cmd
            /\ UNCHANGED <<calls, exitCode>>
    /\ UNCHANGED <<store, run, pre, argv, globals, session, frames, out>>

\* ------------------------------------------------------- create / delete
createContainerCmd ==
    /\ pc = "create-container"
    /\ IF containerName = BadContainerName
       THEN \* url.Parse returns (nil, err), err is dropped, *URL panics
            /\ calls' = Append(calls, Call("url.Parse", "ParseError", FALSE))
            /\ Panic
            /\ UNCHANGED <<store, out>>
       ELSE \E res \in Results(~containerExists, "ContainerAlreadyExists") :
            /\ calls' = calls \o <<Call("url.Parse", OK, FALSE),
                                   Call("Create", res, Failed(res))>>
            /\ containerExists' = (containerExists \/ res = OK)
            /\ blobs' = blobs
            /\ IF Failed(res)
               THEN Fatal /\ out' = Append(out, Msg("Creating"))
               ELSE /\ out' = out \o <<Msg("Creating"), Msg("Successfully")>>
                    /\ pc' = "return"
                    /\ exitCode' = exitCode
    /\ UNCHANGED <<run, pre, argv, globals, flags, session, frames>>

deleteContainerCmd ==
    /\ pc = "delete-container"
    /\ IF containerName = BadContainerName
       THEN /\ calls' = Append(calls, Call("url.Parse", "ParseError", FALSE))
            /\ Panic
            /\ UNCHANGED <<store, out>>
       ELSE \E res \in Results(containerExists, "ContainerNotFound") :
            /\ calls' = calls \o <<Call("url.Parse", OK, FALSE),
                                   Call("Delete", res, Failed(res))>>
            /\ containerExists' = (containerExists /\ res # OK)
            /\ blobs' = IF res = OK THEN [k \in {} |-> OldContent] ELSE blobs
            /\ IF Failed(res)
               THEN Fatal /\ out' = Append(out, Msg("Deleting"))
               ELSE /\ out' = out \o <<Msg("Deleting"), Msg("Successfully")>>
                    /\ pc' = "return"
                    /\ exitCode' = exitCode
    /\ UNCHANGED <<run, pre, argv, globals, flags, session, frames>>

\* ------------------------------------------------------------ OpenBucket
\* azureblob.OpenBucket(ctx, pline, accountName, containerName,
\* &azureblob.Options{Credential: credential}), its error check and
\* "defer bucket.Close()".
OpenBucket(next) ==
    \E res \in Results(TRUE, OK) :
        /\ calls' = Append(calls, Call("OpenBucket", res, Failed(res)))
        /\ openCred' = credential
        /\ IF Failed(res)
           THEN Fatal /\ UNCHANGED <<bucket, opened, defers>>
           ELSE /\ bucket' = "orig"
                /\ opened' = opened \cup {"orig"}
                /\ defers' = <<Deferred("bucket.Close", "orig")>> \o defers
                /\ pc' = next
                /\ exitCode' = exitCode


\* ------------------------------------------------------------------ write
\* The two flag checks of writeCmd.
writeCmd_validate ==
    /\ pc = "write"
    /\ IF IsEmpty(blobKey) \/ IsEmpty(blobValue)
       THEN /\ calls' = Append(calls, Call("validate", "ValidationError", TRUE))
            /\ Fatal
       ELSE /\ pc' = "write_OpenBucket"
            /\ UNCHANGED <<calls, exitCode>>
    /\ UNCHANGED <<store, run, pre, argv, globals, flags, session, frames, out>>

writeCmd_OpenBucket ==
    /\ pc = "write_OpenBucket"
    /\ OpenBucket("write_NewWriter")
    /\ UNCHANGED <<store, run, pre, argv, globals, flags, closeCalls, writer,
                   reader, frames, out>>

\* w, err := bucket.NewWriter(ctx, blobKey, nil)
writeCmd_NewWriter ==
    /\ pc = "write_NewWriter"
    /\ \E res \in Results(TRUE, OK) :
          /\ calls' = Append(calls, Call("NewWriter", res, Failed(res)))
          /\ writer' = IF res = OK THEN "open" ELSE writer
          /\ IF Failed(res)
             THEN Fatal
             ELSE pc' = "write_Fprintln" /\ exitCode' = exitCode
    /\ UNCHANGED <<store, run, pre, argv, globals, flags, bucket, opened,
                   closeCalls, openCred, reader, defers, frames, out>>

\* _, err = fmt.Fprintln(w, blobValue)
writeCmd_Fprintln ==
    /\ pc = "write_Fprintln"
    /\ \E res \in Results(TRUE, OK) :
          /\ calls' = Append(calls, Call("Write", res, Failed(res)))
          /\ IF Failed(res)
             THEN Fatal
             ELSE pc' = "write_Close" /\ exitCode' = exitCode
    /\ UNCHANGED <<store, run, pre, argv, globals, flags, session, frames, out>>

\* What Fprintln(w, v) hands to the writer.
Written(v) == v \o <<"\n">>

\* err = w.Close(): the blob is stored when Close succeeds; then the
\* confirmation line.
writeCmd_Close ==
    /\ pc = "write_Close"
    /\ \E res \in Results(Active, "ContainerNotFound") :
          /\ calls' = Append(calls, Call("Writer.Close", res, Failed(res)))
          /\ writer' = "closed"
          /\ blobs' = IF res = OK
                      THEN [k \in DOMAIN blobs \cup {blobKey} |->
                               IF k = blobKey THEN Written(blobValue) ELSE blobs[k]]
                      ELSE blobs
          /\ IF Failed(res)
             THEN Fatal /\ out' = out
             ELSE /\ out' = Append(out, Msg("Successfully"))
                  /\ pc' = "return"
                  /\ exitCode' = exitCode
    /\ UNCHANGED <<containerExists, run, pre, argv, globals, flags, bucket,
                   opened, closeCalls, openCred, reader, defers, frames>>

\* ------------------------------------------------------------------- read
readCmd_validate ==
    /\ pc = "read"
    /\ IF IsEmpty(blobKey)
       THEN /\ calls' = Append(calls, Call("validate", "ValidationError", TRUE))
            /\ Fatal
       ELSE /\ pc' = "read_OpenBucket"
            /\ UNCHANGED <<calls, exitCode>>
    /\ UNCHANGED <<store, run, pre, argv, globals, flags, session, frames, out>>

readCmd_OpenBucket ==
    /\ pc = "read_OpenBucket"
    /\ OpenBucket("read_NewReader")
    /\ UNCHANGED <<store, run, pre, argv, globals, flags, closeCalls, writer,
                   reader, frames, out>>

\* r, err := bucket.NewReader(ctx, blobKey, nil) and "defer r.Close()"
readCmd_NewReader ==
    /\ pc = "read_NewReader"
    /\ \E res \in Results(Active /\ blobKey \in DOMAIN blobs, "NotFound") :
          /\ calls' = Append(calls, Call("NewReader", res, Failed(res)))
          /\ reader' = IF res = OK THEN "open" ELSE reader
          /\ IF Failed(res)
             THEN Fatal /\ defers' = defers
             ELSE /\ defers' = <<Deferred("Reader.Close", "reader")>> \o defers
                  /\ pc' = "read_Copy"
                  /\ exitCode' = exitCode
    /\ UNCHANGED <<store, run, pre, argv, globals, flags, bucket, opened,
                   closeCalls, openCred, writer, frames, out>>

\* The Content-Type lines, io.Copy(os.Stdout, r) and the confirmation line.
readCmd_Copy ==
    /\ pc = "read_Copy"
    /\ \E res \in Results(TRUE, OK) :
          LET content == IF res = OK /\ blobKey \in DOMAIN blobs
                         THEN <<Line("content", blobs[blobKey], blobKey, FALSE, 0)>>
                         ELSE <<>>
          IN  /\ calls' = Append(calls, Call("io.Copy", res, Failed(res)))
              /\ IF Failed(res)
                 THEN /\ Fatal
                      /\ out' = Append(out, Msg("Content-Type"))
                 ELSE /\ out' = out \o <<Msg("Content-Type")>> \o content
                                    \o <<Msg("Successfully")>>
                      /\ pc' = "return"
                      /\ exitCode' = exitCode
    /\ UNCHANGED <<store, run, pre, argv, globals, flags, session, frames>>

\* ------------------------------------------------------------------- list
\* An activation of the closure list(ctx, b, prefix, indent); its iterator
\* holds the objects b.List has still to yield.
Frame(prefix, indent) ==
    [prefix |-> prefix, indent |-> indent,
     objs |-> PrefixedList(DOMAIN blobs, blobPrefix, prefix)]

\* OpenBucket, blob.PrefixedBucket with the two deferred Close calls, and
\* the call list(ctx, bucket, "", "").
listCmd_OpenBucket ==
    /\ pc = "list"
    /\ \E res \in Results(TRUE, OK) :
          /\ calls' = Append(calls, Call("OpenBucket", res, Failed(res)))
          /\ openCred' = credential
          /\ IF Failed(res)
             THEN Fatal /\ UNCHANGED <<bucket, opened, defers, frames>>
             ELSE /\ bucket' = "prefixed"
                  /\ opened' = opened \cup {"orig", "prefixed"}
                  /\ defers' = <<Deferred("bucket.Close", "prefixed"),
                                 Deferred("bucket.Close", "orig")>> \o defers
                  /\ frames' = <<Frame(<<>>, <<>>)>>
                  /\ pc' = "list_Next"
                  /\ exitCode' = exitCode
    /\ UNCHANGED <<store, run, pre, argv, globals, flags, closeCalls, writer,
                   reader, out>>

\* One round of the loop of list: iter.Next, the EOF and error checks, the
\* printed line and the recursive call.
listCmd_Next ==
    /\ pc = "list_Next"
    /\ frames # <<>>
    /\ LET top  == Len(frames)
           f    == frames[top]
           rest == SubSeq(frames, 1, top - 1)
       IN  \E res \in Transient \cup
                      (IF ~Active THEN {"NotFound"}
                       ELSE IF f.objs = <<>> THEN {"EOF"} ELSE {OK}) :
              /\ calls' = Append(calls,
                     Call("iter.Next", res, res # "EOF" /\ Failed(res)))
              /\ IF res = "EOF"
                 THEN /\ frames' = rest
                      /\ IF rest = <<>>
                         THEN /\ out' = Append(out, Msg("Successfully"))
                              /\ pc' = "return"
                         ELSE UNCHANGED <<out, pc>>
                      /\ exitCode' = exitCode
                 ELSE IF Failed(res)
                 THEN Fatal /\ UNCHANGED <<frames, out>>
                 ELSE IF res # OK
                 THEN Panic /\ UNCHANGED <<frames, out>>
                 ELSE LET obj == Head(f.objs)
                          cur == [f EXCEPT !.objs = Tail(f.objs)]
                      IN  /\ out' = Append(out,
                                 Line("list", f.indent \o obj.Key, obj.Key,
                                      obj.IsDir, top - 1))
                          /\ frames' =
                                IF Descend(obj)
                                THEN Append(rest, cur)
                                     \o <<Frame(obj.Key, ChildIndent(f.indent))>>
                                ELSE Append(rest, cur)
                          /\ UNCHANGED <<pc, exitCode>>
    /\ UNCHANGED <<store, run, pre, argv, globals, flags, session>>

\* ----------------------------------------------------------------- return
\* The handler returns: its deferred calls run, last deferred first, and
\* their results are dropped.
runDeferred ==
    /\ pc = "return"
    /\ defers # <<>>
    /\ LET d == Head(defers)
       IN  \E res \in CloseResults :
              /\ calls' = Append(calls, Call(d.call, res, FALSE))
              /\ closeCalls' = IF d.call = "bucket.Close"
                               THEN [closeCalls EXCEPT ![d.on] = @ + 1]
                               ELSE closeCalls
              /\ reader' = IF d.call = "Reader.Close" THEN "closed" ELSE reader
              /\ defers' = Tail(defers)
    /\ UNCHANGED <<store, run, pre, argv, pc, exitCode, globals, flags, bucket,
                   opened, openCred, writer, frames, out>>

\* Execute returns nil and main returns: exit code 0.
mainReturn ==
    /\ pc = "return"
    /\ defers = <<>>
    /\ pc' = "exit"
    /\ exitCode' = 0
    /\ UNCHANGED <<store, run, pre, argv, globals, flags, session, frames,
                   out, calls>>

\* The next invocation of the program, against the store as it is now.
NewInvocation ==
    /\ pc = "exit"
    /\ run < MaxRuns
    /\ run' = run + 1
    /\ pre' = [exists |-> containerExists, blobs |-> blobs]
    /\ \E a \in Argvs : argv' = a
    /\ pc' = "init"
    /\ exitCode' = -1
    /\ ctx' = Nil
    /\ credential' = Nil
    /\ pline' = Nil
    /\ containerName' = ""
    /\ blobKey' = <<>>
    /\ blobValue' = <<>>
    /\ blobPrefix' = <<>>
    /\ bucket' = Nil
    /\ opened' = {}
    /\ closeCalls' = [b \in {"orig", "prefixed"} |-> 0]
    /\ openCred' = "none"
    /\ writer' = "none"
    /\ reader' = "none"
    /\ defers' = <<>>
    /\ frames' = <<>>
    /\ out' = <<>>
    /\ calls' = <<>>
    /\ UNCHANGED store

Next ==
    \/ init
    \/ Execute
    \/ createContainerCmd
    \/ deleteContainerCmd
    \/ writeCmd_validate
    \/ writeCmd_OpenBucket
    \/ writeCmd_NewWriter
    \/ writeCmd_Fprintln
    \/ writeCmd_Close
    \/ readCmd_validate
    \/ readCmd_OpenBucket
    \/ readCmd_NewReader
    \/ readCmd_Copy
    \/ listCmd_OpenBucket
    \/ listCmd_Next
    \/ runDeferred
    \/ mainReturn
    \/ NewInvocation

Spec == Init /\ [][Next]_vars


\* ============================================================ properties
Exited == pc = "exit"

\* An error value other than the io.EOF that ends an iteration.
IsError(res) == res \notin {OK, "EOF"}

\* Calls that reach the store, as opposed to the release of a bucket or a
\* reader, flag validation and command-line parsing.
StoreOps == {"Create", "Delete", "OpenBucket", "NewWriter", "Write",
             "Writer.Close", "NewReader", "io.Copy", "iter.Next"}

CloseOps == {"bucket.Close", "Reader.Close"}

CallIdx(ops) == {i \in DOMAIN calls : calls[i].op \in ops}

FailedIdx(ops) == {i \in CallIdx(ops) : IsError(calls[i].res)}

Confirmations == {i \in DOMAIN out : out[i].kind = "Successfully"}

ListLines == {i \in DOMAIN out : out[i].kind = "list"}

Refused(op, res) ==
    calls # <<>> /\ calls[Len(calls)].op = op /\ calls[Len(calls)].res = res

StoreNow == [exists |-> containerExists, blobs |-> blobs]

\* ---------------------------------------------------------------------
\* C1 (as stated): create-container on a container that is already Active,
\* and delete-container on a container that is already absent, do not end
\* in an error: the process exits with code 0.
C1_RepeatIsNoError ==
    (Exited /\ (Refused("Create", "ContainerAlreadyExists")
                \/ Refused("Delete", "ContainerNotFound")))
        => exitCode = 0

\* C1 (amended): create-container on an Active container leaves it Active
\* and delete-container on an absent container leaves it absent, but each
\* ends in an error: the store's refusal is printed by log.Fatal, the exit
\* code is 1 and no confirmation is printed; a create or delete that the
\* store accepts ends with the confirmation and makes the container Active,
\* respectively absent.
C1_RepeatIsFatal ==
    /\ (Refused("Create", "ContainerAlreadyExists")
        \/ Refused("Delete", "ContainerNotFound"))
          => /\ Exited
             /\ exitCode = 1
             /\ calls[Len(calls)].reported
             /\ Confirmations = {}
             /\ StoreNow = pre
             /\ containerExists = Refused("Create", "ContainerAlreadyExists")
    /\ Refused("Create", OK)
          => ~pre.exists /\ containerExists /\ Cardinality(Confirmations) = 1
             /\ exitCode \in {-1, 0}
    /\ Refused("Delete", OK)
          => pre.exists /\ ~containerExists /\ Cardinality(Confirmations) = 1
             /\ exitCode \in {-1, 0}

\* A second invocation, create-container against a container that the first
\* invocation left Active, has ended on the store's refusal.
C1_Witness ==
    /\ run = 2
    /\ Exited
    /\ argv.cmd = "create-container"
    /\ Refused("Create", "ContainerAlreadyExists")
    /\ exitCode = 1

\* ---------------------------------------------------------------------
\* C2: when the process has ended, its exit code is 0 if and only if the
\* requested operation succeeded, that is no flag validation, no store call
\* and no command-line parsing (rootCmd.Execute) returned an error.
C2_ExitCodeIffSuccess ==
    Exited => (exitCode = 0 <=> FailedIdx(StoreOps \cup
                  {"NewCredential", "url.Parse", "validate", "Execute"}) = {})

\* ---------------------------------------------------------------------
\* C3: a write or read given an empty --blob-key, and a write given an empty
\* --blob-value, never gets past the flag check: no bucket is opened, no
\* writer or reader is made, no store call is issued, the store is as the
\* invocation found it, and the process ends with exit code 1.
C3_Rejected ==
    /\ ~argv.flagError
    /\ \/ argv.cmd \in {"write", "read"} /\ argv.blobKey = <<>>
       \/ argv.cmd = "write" /\ argv.blobValue = <<>>

C3_ValidationBeforeStore ==
    C3_Rejected =>
        /\ pc \in {"init", "main", "write", "read", "exit"}
        /\ opened = {}
        /\ openCred = "none"
        /\ writer = "none"
        /\ reader = "none"
        /\ CallIdx(StoreOps) = {}
        /\ StoreNow = pre
        /\ Exited => exitCode = 1

\* A write with an empty key against a container that holds blobs has been
\* rejected.
C3_Witness ==
    /\ Exited
    /\ argv.cmd = "write"
    /\ argv.blobKey = <<>>
    /\ argv.blobValue # <<>>
    /\ Refused("validate", "ValidationError")
    /\ pre.exists
    /\ DOMAIN pre.blobs # {}

\* ---------------------------------------------------------------------
\* C4: no bucket has Close called on it more than once, and when the
\* process has ended every bucket that was made (by OpenBucket, or by
\* PrefixedBucket in list) has had Close called on it exactly once, whether
\* the command succeeded or failed.
C4_ClosedExactlyOnce ==
    /\ \A b \in DOMAIN closeCalls : closeCalls[b] <= 1
    /\ Exited => \A b \in opened : closeCalls[b] = 1

\* ---------------------------------------------------------------------
\* C5: when the process has ended, every error a fallible call returned was
\* either reported to the user or made the process end with a non-zero exit
\* code.
C5_NoErrorSwallowed ==
    Exited => \A i \in DOMAIN calls :
                  IsError(calls[i].res) => (calls[i].reported \/ exitCode # 0)


\* ---------------------------------------------------------------------
\* A list command has printed its confirmation: the listing is complete.
ListingDone == argv.cmd = "list" /\ Confirmations # {}

LeafLines == {i \in ListLines : ~out[i].isDir}

\* The keys of the container that start with the blob prefix.
Matching == {k \in DOMAIN blobs : HasPrefix(k, blobPrefix)}

\* C6: a completed listing has exactly one leaf line for every key of the
\* container that starts with the blob prefix (the line shows the key
\* without the prefix) and no other leaf line, also when a key equals a
\* group's prefix without the delimiter and when no key matches; and the
\* descent is bounded: every activation of list has a prefix that is longer
\* than its caller's and no longer than a key that was listed.
C6_EachKeyOnce ==
    /\ ListingDone =>
          /\ \A k \in Matching :
                Cardinality({i \in LeafLines : blobPrefix \o out[i].key = k}) = 1
          /\ \A i \in LeafLines : blobPrefix \o out[i].key \in Matching
          /\ Cardinality(LeafLines) = Cardinality(Matching)
          /\ frames = <<>>
    /\ \A n \in DOMAIN frames :
          /\ n > 1 => Len(frames[n].prefix) > Len(frames[n - 1].prefix)
          /\ n > 1 => \E k \in Matching : HasPrefix(k, blobPrefix \o frames[n].prefix)

\* The container holds both "a/b" and "a/b/d" and has been listed whole.
C6_Witness ==
    /\ ListingDone
    /\ Exited
    /\ exitCode = 0
    /\ blobPrefix = <<>>
    /\ {Str_ab, Str_abd} \subseteq DOMAIN blobs

\* ---------------------------------------------------------------------
\* C7: every line of a listing starts with exactly two spaces per nesting
\* level of the activation of list that printed it, followed by the key;
\* the first line is at depth 0; the line after a group's line is the first
\* of its children, one level deeper; and every line below depth 0 follows
\* its group, the nearest earlier line one level up.
C7_Indentation ==
    /\ \A i \in ListLines :
          LET t == out[i].text
              d == out[i].depth
          IN  /\ Len(t) = 2 * d + Len(out[i].key)
              /\ \A j \in 1..(2 * d) : t[j] = " "
              /\ SubSeq(t, 2 * d + 1, Len(t)) = out[i].key
              /\ Len(t) > 2 * d => t[2 * d + 1] # " "
    /\ \A i \in ListLines :
          /\ (\A j \in ListLines : j >= i) => out[i].depth = 0
          /\ (out[i].isDir /\ i + 1 \in ListLines)
                => /\ out[i + 1].depth = out[i].depth + 1
                   /\ HasPrefix(out[i + 1].key, out[i].key)
          /\ (out[i].isDir /\ ListingDone) => i + 1 \in ListLines
          /\ out[i].depth > 0
                => \E g \in ListLines :
                      /\ g < i
                      /\ out[g].isDir
                      /\ out[g].depth = out[i].depth - 1
                      /\ HasPrefix(out[i].key, out[g].key)
                      /\ \A j \in (g + 1)..(i - 1) : out[j].depth >= out[i].depth

\* A listing has printed a line two levels deep.
C7_Witness ==
    /\ ListingDone
    /\ \E i \in ListLines : out[i].depth = 2 /\ out[i].key = Str_abd

\* ---------------------------------------------------------------------
Retryable == {"Throttled", "Timeout", "Unknown"}

C9_CredentialSet ==
    openCred # "none"
        => /\ openCred # Nil
           /\ pline # Nil
           /\ openCred = pline.credential

\* ---------------------------------------------------------------------
\* The store call a command ends with when it succeeds.
LastOp(cmd) ==
    CASE cmd = "create-container" -> "Create"
      [] cmd = "delete-container" -> "Delete"
      [] cmd = "write"            -> "Writer.Close"
      [] cmd = "read"             -> "io.Copy"
      [] cmd = "list"             -> "iter.Next"

\* C10: the confirmation line is printed at most once, and only when every
\* store call of the command has returned without error and the command's
\* last store call has been made (write: Writer.Close, read: io.Copy, list:
\* an EOF for the top level and for every group printed); once a store call
\* has failed it is the last store call and there is no confirmation line.
C10_ConfirmationAfterSuccess ==
    /\ Cardinality(Confirmations) <= 1
    /\ Confirmations # {} =>
          /\ FailedIdx(StoreOps) = {}
          /\ \E i \in CallIdx({LastOp(argv.cmd)}) :
                /\ calls[i].res = (IF argv.cmd = "list" THEN "EOF" ELSE OK)
                /\ \A j \in CallIdx(StoreOps) : j <= i
          /\ argv.cmd = "list" =>
                Cardinality({i \in CallIdx({"iter.Next"}) : calls[i].res = "EOF"})
                    = 1 + Cardinality({i \in ListLines : out[i].isDir})
          /\ \A i \in Confirmations : i = Len(out)
    /\ \A i \in FailedIdx(StoreOps) :
          /\ Confirmations = {}
          /\ \A j \in CallIdx(StoreOps) : j <= i

\* A write has printed its confirmation after Writer.Close stored the blob.
C10_Witness ==
    /\ argv.cmd = "write"
    /\ Confirmations # {}
    /\ Refused("Writer.Close", OK)
    /\ blobKey \in DOMAIN blobs
    /\ blobs[blobKey] = Written(blobValue)

====
